---- MODULE Spec2Model ----
(***************************************************************************)
(* Model of crates/turborepo-ui/src/logs.rs: LogWriter, which multiplexes  *)
(* written bytes to a buffered log file and/or a prefixed terminal writer, *)
(* and replay_logs, which re-emits a log file line by line.                *)
(***************************************************************************)
EXTENDS Integers, Sequences, FiniteSets, TLC

(* ------------------------------ bounds -------------------------------- *)

\* Capacity of the BufWriter's buffer (8192 in std, scaled down).
Cap == 2
\* Number of write calls and successful with_log_file calls in one behaviour.
MaxOps == 3
\* Longest pre-existing log file replayed under ReplaySpec.
MaxFile == 4
\* Bytes the prefixed writer puts in front of a buffer (counted in its result).
PrefixLen == 1

(* ------------------------------ values -------------------------------- *)

\* Bytes: a letter, line feed, carriage return, a byte that is not valid
\* UTF-8, and the zero byte the file system fills holes with.
NL == "nl"
CR == "cr"
BAD == "bad"
NUL == "nul"
FileBytes == {"a", NL, CR, BAD}

Paths == {"P1", "P2"}
\* I/O failure causes, by the call that fails.
DirCauses == {"EEXIST"}
CreateCauses == {"EACCES"}
FileCauses == {"ENOSPC"}
TermCauses == {"EPIPE"}
OpenCauses == {"EPERM"}
ReadCauses == {"EIO"}
NoCause == "none"

RECURSIVE SeqsUpTo(_, _)
SeqsUpTo(S, n) ==
  IF n = 0 THEN {<<>>}
  ELSE LET shorter == SeqsUpTo(S, n - 1)
       IN  shorter \cup {Append(s, x) : s \in {t \in shorter : Len(t) = n - 1}, x \in S}

\* The buffers handed to write under Spec: nothing, a piece of a line that
\* fits the BufWriter's buffer, and a line as long as its capacity.
Bufs == {<<>>, <<"a">>, <<"a", NL>>}

\* The lines written under RoundTripSpec, each with its line feed: an empty
\* line, which fits the BufWriter's buffer, and two lines as long as its
\* capacity, one of them a carriage return.
LineBufs == {<<NL>>, <<"a", NL>>, <<CR, NL>>}

Min(a, b) == IF a < b THEN a ELSE b
Max(a, b) == IF a > b THEN a ELSE b

\* std::io::Result / Result<(), Error> values.
Ok(n) == [ok |-> TRUE, n |-> n, kind |-> "none", cause |-> NoCause]
Err(kind, c) == [ok |-> FALSE, n |-> 0, kind |-> kind, cause |-> c]
IoErr(c) == Err("io", c)

\* One call made by an operation, with what it returned.
Call(name, res) == [call |-> name, res |-> res]

None == [some |-> FALSE, path |-> "none", pos |-> 0, buf |-> <<>>]
NoWriter == "None"
Writers == {"W"}
Missing == [exists |-> FALSE, data |-> <<>>]
\* An operation: its name, its path (the one it was given, or the log
\* file's for drop), k (for replay_logs the line whose read was made to
\* fail, for drop the number of bytes in the buffer), and whether it is a
\* flush called right after a flush that succeeded.
Op(name) == [name |-> name, path |-> "none", k |-> 0, again |-> FALSE]

VARIABLES
  log_file,         \* LogWriter.log_file: None or an open BufWriter<File>
  prefixed_writer,  \* LogWriter.prefixed_writer: NoWriter or a PrefixedWriter
  fs,               \* the file system: path -> [exists, data]
  term,             \* <<writer, buffer>> of every PrefixedWriter::write call, in order
  wlog,             \* the write calls so far: buffer, arm taken, accepted in full
  accepted,         \* bytes the current file sink has accepted
  nconf,            \* successful with_log_file calls so far
  ui,               \* lines the last operation handed to PrefixedUI::output
  op,               \* the last operation
  calls,            \* calls the last operation made, in order, with their results
  diag,             \* tracing records the last operation emitted, in order
  ret               \* the last operation's result

vars == <<log_file, prefixed_writer, fs, term, wlog, accepted, nconf, ui,
          op, calls, diag, ret>>

(* ------------------------- File and BufWriter -------------------------- *)

\* File::write at the handle's offset: bytes replace what is there, and a
\* gap between the end of the file and the offset reads back as zero bytes.
WriteAt(data, pos, bytes) ==
  [i \in 1..Max(Len(data), pos + Len(bytes)) |->
     IF i > pos /\ i <= pos + Len(bytes) THEN bytes[i - pos]
     ELSE IF i <= Len(data) THEN data[i]
     ELSE NUL]

FileWrite(fsv, lf, bytes) ==
  IF bytes = <<>> THEN fsv
  ELSE [fsv EXCEPT ![lf.path] =
          [exists |-> TRUE, data |-> WriteAt(fsv[lf.path].data, lf.pos, bytes)]]

\* What the operating system does to one call of the file sink: how many of
\* the buffered bytes reach the file before a failure (j, with failure c),
\* and how many bytes a direct write takes (k), unless it fails (c2).
NoFailure == [j |-> 0, c |-> NoCause, k |-> 1, c2 |-> NoCause]

FlushEnvs(lf) ==
  {NoFailure} \cup
  {[NoFailure EXCEPT !.j = j, !.c = c] : j \in 0..(Len(lf.buf) - 1), c \in FileCauses}

DirectEnvs(e, buf) ==
  {[e EXCEPT !.k = k] : k \in 1..Max(1, Len(buf))} \cup
  {[e EXCEPT !.c2 = c] : c \in FileCauses}

WriteEnvs(lf, buf) ==
  IF lf.some THEN UNION {DirectEnvs(e, buf) : e \in FlushEnvs(lf)} ELSE {NoFailure}

\* BufWriter::flush_buf: writes the buffered bytes to the file until all are
\* written or a write fails; the bytes not yet written stay buffered.
\* Mutant: the bytes written out are left in the buffer.
FlushBuf_KeepsBuffer(lf, fsv, e) ==
  LET n == Len(lf.buf)
      j == IF e.c = NoCause THEN n ELSE Min(e.j, n - 1)
  IN  IF e.c = NoCause \/ n = 0
      THEN [lf  |-> [lf EXCEPT !.pos = lf.pos + n],
            fs  |-> FileWrite(fsv, lf, lf.buf),
            res |-> Ok(0)]
      ELSE [lf  |-> [lf EXCEPT !.pos = lf.pos + j],
            fs  |-> FileWrite(fsv, lf, SubSeq(lf.buf, 1, j)),
            res |-> IoErr(e.c)]

FlushBuf(lf, fsv, e) ==
  LET n == Len(lf.buf)
      j == IF e.c = NoCause THEN n ELSE Min(e.j, n - 1)
  IN  IF e.c = NoCause \/ n = 0
      THEN [lf  |-> [lf EXCEPT !.buf = <<>>, !.pos = lf.pos + n],
            fs  |-> FileWrite(fsv, lf, lf.buf),
            res |-> Ok(0)]
      ELSE [lf  |-> [lf EXCEPT !.buf = SubSeq(lf.buf, j + 1, n), !.pos = lf.pos + j],
            fs  |-> FileWrite(fsv, lf, SubSeq(lf.buf, 1, j)),
            res |-> IoErr(e.c)]

\* BufWriter::write: a buffer that fits is copied; otherwise the buffered
\* bytes are flushed first, and a buffer as large as the capacity goes to
\* the file directly, which may take only part of it.
BufWrite(lf, fsv, buf, e) ==
  LET spare == Cap - Len(lf.buf)
      keep(l, f) == [lf  |-> [l EXCEPT !.buf = l.buf \o buf],
                     fs  |-> f,
                     res |-> Ok(Len(buf))]
      direct(l, f) ==
        IF e.c2 # NoCause
        THEN [lf |-> l, fs |-> f, res |-> IoErr(e.c2)]
        ELSE LET k == Min(e.k, Len(buf))
             IN  [lf  |-> [l EXCEPT !.pos = l.pos + k],
                  fs  |-> FileWrite(f, l, SubSeq(buf, 1, k)),
                  res |-> Ok(k)]
      cold(l, f) == IF Len(buf) >= Cap THEN direct(l, f) ELSE keep(l, f)
  IN  IF Len(buf) < spare THEN keep(lf, fsv)
      ELSE IF Len(buf) > spare
           THEN LET fl == FlushBuf(lf, fsv, e)
                IN  IF fl.res.ok THEN cold(fl.lf, fl.fs) ELSE fl
           ELSE cold(lf, fsv)

\* BufWriter::flush: flush_buf, then File::flush, which does nothing.
BufFlush(lf, fsv, e) == FlushBuf(lf, fsv, e)

\* Drop for BufWriter: flush_buf with its result ignored.
BufDrop(lf, fsv, e) == IF lf.some THEN FlushBuf(lf, fsv, e).fs ELSE fsv

(* --------------------------- PrefixedWriter ---------------------------- *)

\* PrefixedWriter::write: the sink's own result, a byte count that includes
\* the prefix or a failure.
TermResults(pw, buf) ==
  IF pw = NoWriter THEN {Ok(0)}
  ELSE {Ok(n) : n \in 0..(Len(buf) + PrefixLen)} \cup {IoErr(c) : c \in TermCauses}

\* PrefixedWriter::flush.
TermFlushResults(pw) ==
  IF pw = NoWriter THEN {Ok(0)} ELSE {Ok(0)} \cup {IoErr(c) : c \in TermCauses}

(* ------------------------------ LogWriter ------------------------------ *)

\* LogWriter::default.
Default == [log_file |-> None, prefixed_writer |-> NoWriter]

\* AbsoluteSystemPath::ensure_dir and ::create: each succeeds or fails with
\* an I/O cause.
PathOutcomes ==
  {[dir |-> NoCause, file |-> NoCause]}
    \cup {[dir |-> c, file |-> NoCause] : c \in DirCauses}
    \cup {[dir |-> NoCause, file |-> c] : c \in CreateCauses}

Created(fsv, p) == [fsv EXCEPT ![p] = [exists |-> TRUE, data |-> <<>>]]

\* BufWriter::new around a file just created.
NewBufWriter(p) == [some |-> TRUE, path |-> p, pos |-> 0, buf |-> <<>>]

\* LogWriter::with_log_file on path p, where ensure_dir and create end as
\* o says. The file is created (and so truncated) first; the assignment to
\* self.log_file then drops the BufWriter that was there, which writes out
\* what it still holds (as e says).
\* Mutant of with_log_file: the slot is emptied before the file is made.
WithLogFile_ClearsSlot(lf, fsv, p, o, e) ==
  IF o.dir # NoCause
  THEN [lf |-> None, fs |-> fsv, stored |-> FALSE,
        calls |-> <<Call("ensure_dir", IoErr(o.dir))>>,
        diag |-> <<"warn: error creating log file directory">>,
        ret |-> Err("CannotWriteLogs", o.dir)]
  ELSE IF o.file # NoCause
  THEN [lf |-> None, fs |-> fsv, stored |-> FALSE,
        calls |-> <<Call("ensure_dir", Ok(0)), Call("create", IoErr(o.file))>>,
        diag |-> <<"warn: error creating log file">>,
        ret |-> Err("CannotWriteLogs", o.file)]
  ELSE [lf |-> NewBufWriter(p), fs |-> BufDrop(lf, Created(fsv, p), e),
        stored |-> TRUE,
        calls |-> <<Call("ensure_dir", Ok(0)), Call("create", Ok(0))>>,
        diag |-> <<>>,
        ret |-> Ok(0)]

\* Mutant of with_log_file: the failures are returned without a record.
WithLogFile_Silent(lf, fsv, p, o, e) ==
  IF o.dir # NoCause
  THEN [lf |-> lf, fs |-> fsv, stored |-> FALSE,
        calls |-> <<Call("ensure_dir", IoErr(o.dir))>>,
        diag |-> <<>>,
        ret |-> Err("CannotWriteLogs", o.dir)]
  ELSE IF o.file # NoCause
  THEN [lf |-> lf, fs |-> fsv, stored |-> FALSE,
        calls |-> <<Call("ensure_dir", Ok(0)), Call("create", IoErr(o.file))>>,
        diag |-> <<>>,
        ret |-> Err("CannotWriteLogs", o.file)]
  ELSE [lf |-> NewBufWriter(p), fs |-> BufDrop(lf, Created(fsv, p), e),
        stored |-> TRUE,
        calls |-> <<Call("ensure_dir", Ok(0)), Call("create", Ok(0))>>,
        diag |-> <<>>,
        ret |-> Ok(0)]

WithLogFile(lf, fsv, p, o, e) ==
  IF o.dir # NoCause
  THEN [lf |-> lf, fs |-> fsv, stored |-> FALSE,
        calls |-> <<Call("ensure_dir", IoErr(o.dir))>>,
        diag |-> <<"warn: error creating log file directory">>,
        ret |-> Err("CannotWriteLogs", o.dir)]
  ELSE IF o.file # NoCause
  THEN [lf |-> lf, fs |-> fsv, stored |-> FALSE,
        calls |-> <<Call("ensure_dir", Ok(0)), Call("create", IoErr(o.file))>>,
        diag |-> <<"warn: error creating log file">>,
        ret |-> Err("CannotWriteLogs", o.file)]
  ELSE [lf |-> NewBufWriter(p), fs |-> BufDrop(lf, Created(fsv, p), e),
        stored |-> TRUE,
        calls |-> <<Call("ensure_dir", Ok(0)), Call("create", Ok(0))>>,
        diag |-> <<>>,
        ret |-> Ok(0)]

with_log_file(p, o, e) ==
  /\ LET r == WithLogFile(log_file, fs, p, o, e)
     IN  /\ r.stored => nconf + Len(wlog) < MaxOps
         /\ log_file' = r.lf
         /\ fs' = r.fs
         /\ accepted' = IF r.stored THEN <<>> ELSE accepted
         /\ nconf' = IF r.stored THEN nconf + 1 ELSE nconf
         /\ calls' = r.calls
         /\ diag' = r.diag
         /\ ret' = r.ret
  /\ op' = [Op("with_log_file") EXCEPT !.path = p]
  /\ ui' = <<>>
  /\ UNCHANGED <<prefixed_writer, term, wlog>>

\* LogWriter::with_prefixed_writer.
with_prefixed_writer(w) ==
  /\ prefixed_writer' = w
  /\ op' = Op("with_prefixed_writer")
  /\ calls' = <<>>
  /\ diag' = <<>>
  /\ ret' = Ok(0)
  /\ ui' = <<>>
  /\ UNCHANGED <<log_file, fs, term, wlog, accepted, nconf>>

\* The arms of LogWriter::write. Each gives the file sink and file system
\* after the call, the sink calls made, the arm taken, whether the prefixed
\* writer was called, the file sink's result (NoCall if it was not called),
\* the tracing records and the value returned.
NoCall == [ok |-> FALSE, n |-> 0, kind |-> "nocall", cause |-> NoCause]

\* Mutants of the dual-sink arm: the log file written first; the prefixed
\* writer's result returned.
WriteBoth_FileFirst(lf, fsv, buf, e, t) ==
  LET f == BufWrite(lf, fsv, buf, e)
  IN  IF ~f.res.ok
      THEN [lf |-> f.lf, fs |-> f.fs, calls |-> <<Call("log_file.write", f.res)>>,
            arm |-> "both", tcall |-> FALSE, fres |-> f.res, diag |-> <<>>,
            ret |-> f.res]
      ELSE [lf |-> f.lf, fs |-> f.fs,
            calls |-> <<Call("log_file.write", f.res), Call("prefixed_writer.write", t)>>,
            arm |-> "both", tcall |-> TRUE, fres |-> f.res, diag |-> <<>>,
            ret |-> IF t.ok THEN f.res ELSE t]

WriteBoth_ReturnsTermResult(lf, fsv, buf, e, t) ==
  IF ~t.ok
  THEN [lf |-> lf, fs |-> fsv, calls |-> <<Call("prefixed_writer.write", t)>>,
        arm |-> "both", tcall |-> TRUE, fres |-> NoCall, diag |-> <<>>, ret |-> t]
  ELSE LET f == BufWrite(lf, fsv, buf, e)
       IN  [lf |-> f.lf, fs |-> f.fs,
            calls |-> <<Call("prefixed_writer.write", t), Call("log_file.write", f.res)>>,
            arm |-> "both", tcall |-> TRUE, fres |-> f.res, diag |-> <<>>,
            ret |-> IF f.res.ok THEN t ELSE f.res]

WriteBoth(lf, fsv, buf, e, t) ==
  IF ~t.ok
  THEN [lf |-> lf, fs |-> fsv, calls |-> <<Call("prefixed_writer.write", t)>>,
        arm |-> "both", tcall |-> TRUE, fres |-> NoCall, diag |-> <<>>, ret |-> t]
  ELSE LET f == BufWrite(lf, fsv, buf, e)
       IN  [lf |-> f.lf, fs |-> f.fs,
            calls |-> <<Call("prefixed_writer.write", t), Call("log_file.write", f.res)>>,
            arm |-> "both", tcall |-> TRUE, fres |-> f.res, diag |-> <<>>,
            ret |-> f.res]

\* Mutant of the file-only arm: the buffer is counted and not written.
WriteFile_CountsOnly(lf, fsv, buf, e, t) ==
  [lf |-> lf, fs |-> fsv, calls |-> <<Call("log_file.write", Ok(Len(buf)))>>,
   arm |-> "file", tcall |-> FALSE, fres |-> Ok(Len(buf)), diag |-> <<>>,
   ret |-> Ok(Len(buf))]

\* Mutant of the file-only arm: a failed write is returned as zero bytes
\* written.
WriteFile_SwallowsError(lf, fsv, buf, e, t) ==
  LET f == BufWrite(lf, fsv, buf, e)
  IN  [lf |-> f.lf, fs |-> f.fs, calls |-> <<Call("log_file.write", f.res)>>,
       arm |-> "file", tcall |-> FALSE, fres |-> f.res, diag |-> <<>>,
       ret |-> IF f.res.ok THEN f.res ELSE Ok(0)]

WriteFile(lf, fsv, buf, e, t) ==
  LET f == BufWrite(lf, fsv, buf, e)
  IN  [lf |-> f.lf, fs |-> f.fs, calls |-> <<Call("log_file.write", f.res)>>,
       arm |-> "file", tcall |-> FALSE, fres |-> f.res, diag |-> <<>>, ret |-> f.res]

\* Mutant of the terminal-only arm: the buffer's length is returned in
\* place of the prefixed writer's result.
WriteTerm_ReturnsLen(lf, fsv, buf, e, t) ==
  [lf |-> lf, fs |-> fsv, calls |-> <<Call("prefixed_writer.write", t)>>,
   arm |-> "term", tcall |-> TRUE, fres |-> NoCall, diag |-> <<>>,
   ret |-> Ok(Len(buf))]

WriteTerm(lf, fsv, buf, e, t) ==
  [lf |-> lf, fs |-> fsv, calls |-> <<Call("prefixed_writer.write", t)>>,
   arm |-> "term", tcall |-> TRUE, fres |-> NoCall, diag |-> <<>>, ret |-> t]

\* Mutant of the no-sink arm: the buffer's length is returned.
WriteNone_ReturnsLen(lf, fsv, buf, e, t) ==
  [lf |-> lf, fs |-> fsv, calls |-> <<>>, arm |-> "none", tcall |-> FALSE,
   fres |-> NoCall,
   diag |-> <<"debug: no log file or prefixed writer">>, ret |-> Ok(Len(buf))]

WriteNone(lf, fsv, buf, e, t) ==
  [lf |-> lf, fs |-> fsv, calls |-> <<>>, arm |-> "none", tcall |-> FALSE,
   fres |-> NoCall,
   diag |-> <<"debug: no log file or prefixed writer">>, ret |-> Ok(0)]

WriteMatch(lf, pw, fsv, buf, e, t) ==
  IF lf.some /\ pw # NoWriter THEN WriteBoth(lf, fsv, buf, e, t)
  ELSE IF lf.some THEN WriteFile(lf, fsv, buf, e, t)
  ELSE IF pw # NoWriter THEN WriteTerm(lf, fsv, buf, e, t)
  ELSE WriteNone(lf, fsv, buf, e, t)

\* LogWriter::write.
write(buf, e, t) ==
  /\ nconf + Len(wlog) < MaxOps
  /\ LET r == WriteMatch(log_file, prefixed_writer, fs, buf, e, t)
     IN  /\ log_file' = r.lf
         /\ fs' = r.fs
         /\ term' = IF r.tcall THEN Append(term, <<prefixed_writer, buf>>) ELSE term
         /\ accepted' = IF r.fres.ok THEN accepted \o SubSeq(buf, 1, r.fres.n)
                        ELSE accepted
         /\ wlog' = Append(wlog, [buf |-> buf, arm |-> r.arm,
                                  full |-> r.ret = Ok(Len(buf))])
         /\ calls' = r.calls
         /\ diag' = r.diag
         /\ ret' = r.ret
  /\ op' = Op("write")
  /\ ui' = <<>>
  /\ UNCHANGED <<prefixed_writer, nconf>>

\* LogWriter::flush.
\* Mutants of flush: the log file left unflushed; a failed log file flush
\* not stopping the prefixed writer's flush.
FlushBoth_SkipsFile(lf, pw, fsv, e, t) ==
  IF pw # NoWriter
  THEN [lf |-> lf, fs |-> fsv, calls |-> <<Call("prefixed_writer.flush", t)>>, ret |-> t]
  ELSE [lf |-> lf, fs |-> fsv, calls |-> <<>>, ret |-> Ok(0)]

FlushBoth_IgnoresFileError(lf, pw, fsv, e, t) ==
  LET f == IF lf.some THEN BufFlush(lf, fsv, e)
           ELSE [lf |-> lf, fs |-> fsv, res |-> Ok(0)]
      fcalls == IF lf.some THEN <<Call("log_file.flush", f.res)>> ELSE <<>>
  IN  IF pw # NoWriter
      THEN [lf |-> f.lf, fs |-> f.fs,
            calls |-> Append(fcalls, Call("prefixed_writer.flush", t)), ret |-> t]
      ELSE [lf |-> f.lf, fs |-> f.fs, calls |-> fcalls, ret |-> f.res]

\* Mutant of flush: the log file is taken out of its slot once flushed.
FlushBoth_TakesFile(lf, pw, fsv, e, t) ==
  LET f == IF lf.some THEN BufFlush(lf, fsv, e)
           ELSE [lf |-> lf, fs |-> fsv, res |-> Ok(0)]
      fcalls == IF lf.some THEN <<Call("log_file.flush", f.res)>> ELSE <<>>
  IN  IF ~f.res.ok
      THEN [lf |-> f.lf, fs |-> f.fs, calls |-> fcalls, ret |-> f.res]
      ELSE IF pw # NoWriter
      THEN [lf |-> None, fs |-> f.fs,
            calls |-> Append(fcalls, Call("prefixed_writer.flush", t)), ret |-> t]
      ELSE [lf |-> None, fs |-> f.fs, calls |-> fcalls, ret |-> Ok(0)]

FlushBoth(lf, pw, fsv, e, t) ==
  LET f == IF lf.some THEN BufFlush(lf, fsv, e)
           ELSE [lf |-> lf, fs |-> fsv, res |-> Ok(0)]
      fcalls == IF lf.some THEN <<Call("log_file.flush", f.res)>> ELSE <<>>
  IN  IF ~f.res.ok
      THEN [lf |-> f.lf, fs |-> f.fs, calls |-> fcalls, ret |-> f.res]
      ELSE IF pw # NoWriter
      THEN [lf |-> f.lf, fs |-> f.fs,
            calls |-> Append(fcalls, Call("prefixed_writer.flush", t)), ret |-> t]
      ELSE [lf |-> f.lf, fs |-> f.fs, calls |-> fcalls, ret |-> Ok(0)]

flush(e, t) ==
  /\ LET r == FlushBoth(log_file, prefixed_writer, fs, e, t)
     IN  /\ log_file' = r.lf
         /\ fs' = r.fs
         /\ calls' = r.calls
         /\ ret' = r.ret
  /\ op' = [Op("flush") EXCEPT !.again = (op.name = "flush" /\ ret.ok)]
  /\ diag' = <<>>
  /\ ui' = <<>>
  /\ UNCHANGED <<prefixed_writer, term, wlog, accepted, nconf>>

\* Drop of a LogWriter, which has no Drop of its own: its fields are dropped
\* in the order they are declared. The BufWriter's Drop calls flush_buf and
\* ignores its result, and the File is closed; then the prefixed writer is
\* dropped.
\* Mutant: the log file is closed with its buffer not written out.
DropWriter_NoFlush(lf, pw, fsv, e) ==
  [lf |-> None, pw |-> NoWriter, fs |-> fsv,
   calls |-> IF lf.some THEN <<Call("flush_buf", FlushBuf(lf, fsv, e).res)>> ELSE <<>>]

DropWriter(lf, pw, fsv, e) ==
  [lf |-> None, pw |-> NoWriter, fs |-> BufDrop(lf, fsv, e),
   calls |-> IF lf.some THEN <<Call("flush_buf", FlushBuf(lf, fsv, e).res)>> ELSE <<>>]

drop(e) ==
  /\ LET r == DropWriter(log_file, prefixed_writer, fs, e)
     IN  /\ log_file' = r.lf
         /\ prefixed_writer' = r.pw
         /\ fs' = r.fs
         /\ calls' = r.calls
  /\ op' = [Op("drop") EXCEPT !.path = log_file.path, !.k = Len(log_file.buf)]
  /\ diag' = <<>>
  /\ ret' = Ok(0)
  /\ ui' = <<>>
  /\ UNCHANGED <<term, wlog, accepted, nconf>>

(* ------------------------------ replay_logs ---------------------------- *)

\* BufRead::read_until(b'\n'): the index of the last byte of the line that
\* starts at i, its line feed included; the end of the data if there is none.
RECURSIVE ReadUntil(_, _)
ReadUntil(data, i) ==
  IF i >= Len(data) \/ data[i] = NL THEN i ELSE ReadUntil(data, i + 1)

\* Lines::next takes the line feed off the end of what read_line gave, and
\* then a carriage return if one is left at the end.
\* Mutant: the line is emitted as read_line gave it.
StripTerminator_KeepsIt(raw) == raw

StripTerminator(raw) ==
  LET n == Len(raw)
      m == IF n > 0 /\ raw[n] = NL THEN n - 1 ELSE n
  IN  IF m < n /\ m > 0 /\ raw[m] = CR THEN SubSeq(raw, 1, m - 1)
      ELSE SubSeq(raw, 1, m)

IsUtf8(raw) == \A i \in 1..Len(raw) : raw[i] # BAD

\* Mutant of the loop: a line whose read fails is skipped.
RECURSIVE ReplayLoop_SkipsFailedLine(_, _, _, _, _, _)
ReplayLoop_SkipsFailedLine(data, i, k, failAt, c, out) ==
  IF i > Len(data) THEN [ui |-> out, ret |-> Ok(0), done |-> TRUE]
  ELSE LET e   == ReadUntil(data, i)
           raw == SubSeq(data, i, e)
       IN  IF k = failAt \/ ~IsUtf8(raw)
           THEN ReplayLoop_SkipsFailedLine(data, e + 1, k + 1, failAt, c, out)
           ELSE ReplayLoop_SkipsFailedLine(data, e + 1, k + 1, failAt, c,
                                           Append(out, StripTerminator(raw)))

\* The for loop of replay_logs from byte i on, reading line number k, with
\* out the lines given to output.output so far. The read of line failAt
\* fails with cause c (failAt = 0: no read fails); read_line fails with
\* InvalidData on a line that is not UTF-8.
RECURSIVE ReplayLoop(_, _, _, _, _, _)
ReplayLoop(data, i, k, failAt, c, out) ==
  IF k = failAt THEN [ui |-> out, ret |-> Err("CannotReadLogs", c), done |-> FALSE]
  ELSE IF i > Len(data) THEN [ui |-> out, ret |-> Ok(0), done |-> TRUE]
  ELSE LET e   == ReadUntil(data, i)
           raw == SubSeq(data, i, e)
       IN  IF ~IsUtf8(raw)
           THEN [ui |-> out, ret |-> Err("CannotReadLogs", "InvalidData"), done |-> FALSE]
           ELSE ReplayLoop(data, e + 1, k + 1, failAt, c, Append(out, StripTerminator(raw)))

\* File::open: fails on a path that does not exist, and may fail on any path.
OpenResults(fsv, p) ==
  IF fsv[p].exists THEN {NoCause} \cup OpenCauses ELSE {"ENOENT"}

\* Mutant of replay_logs: a file that cannot be opened replays as empty.
ReplayResult_IgnoresOpenError(fsv, p, o, failAt, c) ==
  IF o # NoCause
  THEN [ui |-> <<>>, ret |-> Ok(0),
        calls |-> <<Call("File::open", IoErr(o))>>,
        diag |-> <<"debug: start replaying logs", "debug: finish replaying logs">>]
  ELSE LET r == ReplayLoop(fsv[p].data, 1, 1, failAt, c, <<>>)
       IN  [ui |-> r.ui, ret |-> r.ret,
            calls |-> <<Call("File::open", Ok(0))>>,
            diag |-> IF r.done
                     THEN <<"debug: start replaying logs", "debug: finish replaying logs">>
                     ELSE <<"debug: start replaying logs">>]

ReplayResult(fsv, p, o, failAt, c) ==
  IF o # NoCause
  THEN [ui |-> <<>>, ret |-> Err("CannotReadLogs", o),
        calls |-> <<Call("File::open", IoErr(o))>>,
        diag |-> <<"debug: start replaying logs", "warn: error opening log file">>]
  ELSE LET r == ReplayLoop(fsv[p].data, 1, 1, failAt, c, <<>>)
       IN  [ui |-> r.ui, ret |-> r.ret,
            calls |-> <<Call("File::open", Ok(0))>>,
            diag |-> IF r.done
                     THEN <<"debug: start replaying logs", "debug: finish replaying logs">>
                     ELSE <<"debug: start replaying logs">>]

replay_logs(p, o, failAt, c) ==
  /\ o \in OpenResults(fs, p)
  /\ LET r == ReplayResult(fs, p, o, failAt, c)
     IN  /\ ui' = r.ui
         /\ ret' = r.ret
         /\ diag' = r.diag
         /\ calls' = r.calls
  /\ op' = [Op("replay_logs") EXCEPT !.path = p, !.k = failAt]
  /\ UNCHANGED <<log_file, prefixed_writer, fs, term, wlog, accepted, nconf>>

(* ---------------------------- specifications --------------------------- *)

Fresh ==
  /\ log_file = Default.log_file
  /\ prefixed_writer = Default.prefixed_writer
  /\ term = <<>>
  /\ wlog = <<>>
  /\ accepted = <<>>
  /\ nconf = 0
  /\ ui = <<>>
  /\ op = Op("default")
  /\ calls = <<>>
  /\ diag = <<>>
  /\ ret = Ok(0)

Init ==
  /\ Fresh
  /\ fs = [p \in Paths |-> Missing]

Configure ==
  \/ \E p \in Paths, o \in PathOutcomes :
       \E e \in FlushEnvs(log_file) : with_log_file(p, o, e)
  \/ \E w \in Writers : with_prefixed_writer(w)

WriteStep ==
  \E buf \in Bufs :
    \E e \in WriteEnvs(log_file, buf), t \in TermResults(prefixed_writer, buf) :
      write(buf, e, t)

FlushStep ==
  \E e \in FlushEnvs(log_file), t \in TermFlushResults(prefixed_writer) : flush(e, t)

ReplayStep ==
  \E p \in Paths, c \in ReadCauses :
    \E o \in OpenResults(fs, p), failAt \in 0..(Len(fs[p].data) + 1) :
      replay_logs(p, o, failAt, c)

\* The LogWriter: configuration, writes and flushes in any order. Replays
\* are taken under RoundTripSpec (of the files a writer makes) and under
\* ReplaySpec (of files already on disk).
Next == Configure \/ WriteStep \/ FlushStep

Spec == Init /\ [][Next]_vars

\* A LogWriter with a log file only, written line by line, and replays of
\* the files it writes.
ConfigureFile ==
  \E p \in Paths, o \in PathOutcomes :
    \E e \in FlushEnvs(log_file) : with_log_file(p, o, e)

WriteLine ==
  \E buf \in LineBufs :
    \E e \in WriteEnvs(log_file, buf), t \in TermResults(prefixed_writer, buf) :
      write(buf, e, t)

RoundTripNext == ConfigureFile \/ WriteLine \/ FlushStep \/ ReplayStep

RoundTripSpec == Init /\ [][RoundTripNext]_vars

\* A LogWriter from its construction to its drop, after which it takes no
\* further call.
Alive == op.name # "drop"

LiveStep == Alive /\ Next

DropStep == Alive /\ \E e \in FlushEnvs(log_file) : drop(e)

DropNext == LiveStep \/ DropStep

DropSpec == Init /\ [][DropNext]_vars

\* Replay of log files that are already on disk: every byte sequence up to
\* MaxFile bytes, and the file of test_replay_logs (with "a" and "aa" for
\* its lines).
Fish == <<NL, "a", NL, "a", "a", NL, "a", NL, "a", "a">>

InitFiles == SeqsUpTo(FileBytes, MaxFile) \cup {Fish}

ReplayInit ==
  /\ Fresh
  /\ \E d \in InitFiles :
       fs = [p \in Paths |-> IF p = "P1" THEN [exists |-> TRUE, data |-> d] ELSE Missing]

ReplayNext == ReplayStep

ReplaySpec == ReplayInit /\ [][ReplayNext]_vars

(* ------------------------------- claims -------------------------------- *)

Last(sq) == sq[Len(sq)]

RECURSIVE Concat(_)
Concat(sq) == IF sq = <<>> THEN <<>> ELSE sq[1] \o Concat(Tail(sq))

WrittenBufs == [i \in 1..Len(wlog) |-> wlog[i].buf]

BothSinks == log_file.some /\ prefixed_writer # NoWriter

\* A write call is the step that lengthens wlog.
IsWrite == Len(wlog') = Len(wlog) + 1

\* C1: with both sinks configured, a write calls the prefixed writer with
\* the buffer before it calls the log file, and when the prefixed writer
\* fails, write returns that failure and the log file is not called: its
\* buffer, its offset, the bytes it has accepted and the file system are
\* what they were.
C1_TerminalFirstFailClosed ==
  [][(IsWrite /\ BothSinks) =>
       /\ Len(calls') >= 1
       /\ calls'[1].call = "prefixed_writer.write"
       /\ term' = Append(term, <<prefixed_writer, Last(wlog').buf>>)
       /\ \A i \in 1..Len(calls') : calls'[i].call = "log_file.write" => i = 2
       /\ ~calls'[1].res.ok =>
            /\ ret' = calls'[1].res
            /\ Len(calls') = 1
            /\ log_file' = log_file
            /\ fs' = fs
            /\ accepted' = accepted]_vars

\* C1 witness: a dual-sink write whose prefixed writer failed while the log
\* file already held bytes.
C1_Witness ==
  /\ op.name = "write"
  /\ Last(wlog).arm = "both"
  /\ Last(wlog).buf # <<>>
  /\ ~calls[1].res.ok
  /\ accepted # <<>>

\* C2: with both sinks configured and the prefixed writer's write
\* succeeding, write returns exactly what the log file's write returned, a
\* byte count or a failure, whatever count the prefixed writer gave.
C2_ReturnsFileResult ==
  (op.name = "write" /\ Last(wlog).arm = "both" /\ calls[1].res.ok) =>
    /\ Len(calls) = 2
    /\ calls[2].call = "log_file.write"
    /\ ret = calls[2].res

\* C2 witness: the two sinks gave different byte counts.
C2_Witness ==
  /\ op.name = "write"
  /\ Last(wlog).arm = "both"
  /\ Len(calls) = 2
  /\ calls[1].res.ok /\ calls[2].res.ok
  /\ calls[1].res.n > calls[2].res.n
  /\ calls[2].res.n > 0

\* C2 witness of the failure case: the prefixed writer succeeded and the log
\* file's write failed.
C2_WitnessFileFails ==
  /\ op.name = "write"
  /\ Last(wlog).arm = "both"
  /\ Len(calls) = 2
  /\ calls[1].res.ok /\ ~calls[2].res.ok

\* Every write so far went to both sinks of a writer whose log file was
\* configured once, and was accepted in full.
AllDualFull ==
  /\ nconf = 1
  /\ \A i \in 1..Len(wlog) : wlog[i].arm = "both" /\ wlog[i].full

\* C3: after buffers are written through a writer with both sinks (each
\* write accepted in full) and the writer is flushed, the file holds
\* exactly the concatenation of the buffers in write order, and the
\* prefixed writer has been called once per write with the same buffers in
\* the same order.
C3_FileIsConcatenation ==
  (op.name = "flush" /\ ret.ok /\ BothSinks /\ AllDualFull) =>
    /\ fs[log_file.path].exists
    /\ fs[log_file.path].data = Concat(WrittenBufs)
    /\ term = [i \in 1..Len(wlog) |-> <<prefixed_writer, wlog[i].buf>>]

\* C3 witness: two different non-empty buffers written and flushed.
C3_Witness ==
  /\ op.name = "flush" /\ ret.ok /\ BothSinks /\ AllDualFull
  /\ Len(wlog) >= 2
  /\ wlog[1].buf # <<>> /\ wlog[2].buf # <<>>
  /\ wlog[1].buf # wlog[2].buf

\* C4: flush flushes the log file, if there is one, before the prefixed
\* writer, if there is one; a failed log file flush is returned and the
\* prefixed writer's flush is not called; otherwise the prefixed writer's
\* flush result is returned; with neither sink flush succeeds.
C4_FlushOrder ==
  op.name = "flush" =>
    /\ log_file.some =>
         /\ Len(calls) >= 1
         /\ calls[1].call = "log_file.flush"
         /\ ~calls[1].res.ok => (ret = calls[1].res /\ Len(calls) = 1)
    /\ \A i \in 1..Len(calls) :
         calls[i].call = "prefixed_writer.flush" =>
           /\ i = Len(calls)
           /\ \A j \in 1..(i - 1) : calls[j].res.ok
    /\ (prefixed_writer # NoWriter /\ (log_file.some => calls[1].res.ok)) =>
         /\ Last(calls).call = "prefixed_writer.flush"
         /\ Len(calls) = (IF log_file.some THEN 2 ELSE 1)
         /\ ret = Last(calls).res
    /\ (prefixed_writer = NoWriter /\ (log_file.some => calls[1].res.ok)) => ret = Ok(0)
    /\ (~log_file.some /\ prefixed_writer = NoWriter) => (calls = <<>> /\ ret = Ok(0))

\* C4 witness: the log file's flush failed with both sinks configured.
C4_Witness ==
  /\ op.name = "flush"
  /\ BothSinks
  /\ ~calls[1].res.ok

\* C5: while the writer has had no sink configured, every write returns
\* byte count 0 without failure, calls no sink, and leaves the prefixed
\* writer's output and the file system empty.
C5_NoSinkWrite ==
  (~log_file.some /\ prefixed_writer = NoWriter) =>
    /\ \A i \in 1..Len(wlog) : wlog[i].arm = "none"
    /\ op.name = "write" => (ret = Ok(0) /\ calls = <<>>)
    /\ term = <<>>
    /\ accepted = <<>>
    /\ \A p \in Paths : fs[p] = Missing

\* C5 witness: two writes of non-empty buffers to a writer with no sink.
C5_Witness ==
  /\ ~log_file.some /\ prefixed_writer = NoWriter
  /\ op.name = "write"
  /\ Len(wlog) >= 2
  /\ \A i \in 1..Len(wlog) : wlog[i].buf # <<>>

\* C6: when with_log_file fails, at ensure_dir or at create, it returns
\* CannotWriteLogs with the cause the failing call gave, and log_file is
\* what it was before the call.
C6_ConfigureFailure ==
  [][(op'.name = "with_log_file" /\ ~ret'.ok) =>
       /\ ret'.kind = "CannotWriteLogs"
       /\ ~Last(calls').res.ok
       /\ ret'.cause = Last(calls').res.cause
       /\ Last(calls').call \in {"ensure_dir", "create"}
       /\ log_file' = log_file
       /\ accepted' = accepted
       /\ nconf' = nconf]_vars

\* C6 witness: create failed on a writer that had no log file, and the
\* writer still has none.
C6_Witness ==
  /\ op.name = "with_log_file"
  /\ ~ret.ok
  /\ Last(calls).call = "create"
  /\ ~log_file.some

(* The lines of a file, told from the places of its line feeds. *)

LineFeeds(data) == {i \in 1..Len(data) : data[i] = NL}

\* The place of the n-th line feed.
LineFeed(data, n) ==
  CHOOSE i \in LineFeeds(data) : Cardinality({j \in LineFeeds(data) : j <= i}) = n

\* One line per line feed, and one more for bytes after the last line feed.
NumLines(data) ==
  Cardinality(LineFeeds(data))
    + (IF Len(data) > 0 /\ data[Len(data)] # NL THEN 1 ELSE 0)

LineFirst(data, n) == IF n = 1 THEN 1 ELSE LineFeed(data, n - 1) + 1

\* The last byte of line n before its line feed.
LineLast(data, n) ==
  IF n <= Cardinality(LineFeeds(data)) THEN LineFeed(data, n) - 1 ELSE Len(data)

Terminated(data, n) == n <= Cardinality(LineFeeds(data))

\* Line n without its terminator: a line feed, or a carriage return and a
\* line feed.
Line(data, n) ==
  LET a == LineFirst(data, n)
      b == LineLast(data, n)
  IN  IF Terminated(data, n) /\ b >= a /\ data[b] = CR
      THEN SubSeq(data, a, b - 1)
      ELSE SubSeq(data, a, b)

NotUtf8(data, n) == \E i \in LineFirst(data, n)..LineLast(data, n) : data[i] = BAD

\* The first line whose read fails in the replay the state records: the
\* line the I/O failure was put at, or the first line that is not UTF-8,
\* whichever comes first; 0 when no read fails.
FailLine(data, k) ==
  LET bad == {n \in 1..NumLines(data) : NotUtf8(data, n)}
      io  == IF k >= 1 /\ k <= NumLines(data) + 1 THEN {k} ELSE {}
      all == bad \cup io
  IN  IF all = {} THEN 0 ELSE CHOOSE n \in all : \A m \in all : n <= m

FailCause(data, k) == IF FailLine(data, k) = k THEN "EIO" ELSE "InvalidData"

Replayed == op.name = "replay_logs"
Opened == Replayed /\ calls[1].res.ok
ReplayedData == fs[op.path].data

\* C7: replaying a path that cannot be opened, a path that does not exist
\* among them, fails with CannotReadLogs carrying the cause File::open
\* gave, and output is called zero times.
C7_OpenFailure ==
  Replayed =>
    /\ ~fs[op.path].exists => ~calls[1].res.ok
    /\ ~calls[1].res.ok =>
         /\ ret = Err("CannotReadLogs", calls[1].res.cause)
         /\ ui = <<>>

\* C7 witness: a replay of the path that does not exist.
C7_Witness ==
  /\ Replayed
  /\ ~fs[op.path].exists
  /\ ret.cause = "ENOENT"

\* C8: if the read of line k fails, replay_logs returns CannotReadLogs with
\* that cause, and output has been called with exactly lines 1..k-1, in
\* file order.
C8_ReadFailure ==
  (Opened /\ FailLine(ReplayedData, op.k) > 0) =>
    /\ ret = Err("CannotReadLogs", FailCause(ReplayedData, op.k))
    /\ ui = [n \in 1..(FailLine(ReplayedData, op.k) - 1) |-> Line(ReplayedData, n)]

\* C8 witness: the read of the third line failed after two different lines.
C8_Witness ==
  /\ Opened
  /\ FailLine(ReplayedData, op.k) = 3
  /\ Len(ui) = 2
  /\ ui[1] # ui[2]

\* C8 witness for k = 1: the first read failed and nothing was emitted.
C8_WitnessFirstLine ==
  /\ Opened
  /\ ReplayedData # <<>>
  /\ FailLine(ReplayedData, op.k) = 1
  /\ ui = <<>>

\* C10: a replay in which no read fails succeeds and calls output once per
\* line, in file order, with the terminator stripped: a file that starts
\* with a line feed gives an empty first line, bytes after the last line
\* feed are emitted as a line, a line feed at the end of the file adds no
\* empty line, and the file of test_replay_logs gives five lines.
C10_ReplayLines ==
  (Opened /\ FailLine(ReplayedData, op.k) = 0) =>
    LET data == ReplayedData
    IN  /\ ret = Ok(0)
        /\ ui = [n \in 1..NumLines(data) |-> Line(data, n)]
        /\ \A n \in 1..Len(ui) : \A i \in 1..Len(ui[n]) : ui[n][i] # NL
        /\ (data # <<>> /\ data[1] = NL) => ui[1] = <<>>
        /\ (data # <<>> /\ data[Len(data)] = NL) =>
             Len(ui) = Cardinality(LineFeeds(data))
        /\ (data # <<>> /\ data[Len(data)] # NL) =>
             /\ Len(ui) = Cardinality(LineFeeds(data)) + 1
             /\ \E j \in 0..(Len(data) - 1) :
                  /\ j = 0 \/ data[j] = NL
                  /\ Last(ui) = SubSeq(data, j + 1, Len(data))
        /\ data = Fish =>
             ui = << <<>>, <<"a">>, <<"a", "a">>, <<"a">>, <<"a", "a">> >>

\* C10 witness: the file of test_replay_logs replayed with success.
C10_Witness ==
  /\ Opened
  /\ ReplayedData = Fish
  /\ ret.ok
  /\ Len(ui) = 5

(* The round trip through a log file. *)

\* Every write so far went to the log file alone, of a writer whose log
\* file was configured once, and was accepted in full.
AllFileFull ==
  /\ nconf = 1
  /\ prefixed_writer = NoWriter
  /\ \A i \in 1..Len(wlog) : wlog[i].arm = "file" /\ wlog[i].full

\* The line a buffer of LineBufs was written for: the buffer without its
\* line feed.
WrittenLine(buf) == SubSeq(buf, 1, Len(buf) - 1)

EndsInCR(l) == l # <<>> /\ Last(l) = CR

\* A replay of the writer's file, with no failure, right after a
\* successful flush of lines written to the log file alone.
RoundTripStep ==
  /\ op.name = "flush" /\ ret.ok
  /\ log_file.some
  /\ AllFileFull
  /\ op'.name = "replay_logs"
  /\ op'.path = log_file.path
  /\ ret'.ok

SecondFlush == op.name = "flush" /\ ret.ok /\ op'.name = "flush"

\* C11 as stated: a flush called right after a successful flush, with no
\* write in between, succeeds and changes neither the bytes in the file
\* nor what the prefixed writer has been given.
C11_FlushIdempotent ==
  [][SecondFlush => (ret'.ok /\ fs' = fs /\ term' = term)]_vars

\* C11, amended: such a flush changes neither the files nor what the
\* prefixed writer has been given nor the log file's buffer and offset, and
\* its log file flush succeeds; it fails only when the prefixed writer's
\* flush fails, with that failure, and so succeeds when there is no
\* prefixed writer.
C11_SecondFlush ==
  [][SecondFlush =>
       /\ fs' = fs
       /\ term' = term
       /\ log_file' = log_file
       /\ log_file.some => calls'[1] = Call("log_file.flush", Ok(0))
       /\ prefixed_writer = NoWriter => ret' = Ok(0)
       /\ ~ret'.ok =>
            /\ Last(calls').call = "prefixed_writer.flush"
            /\ ret' = Last(calls').res]_vars

\* C11 witness: a second flush, of a writer with both sinks whose first
\* flush put written bytes in the file, failed at the prefixed writer.
C11_Witness ==
  /\ op.name = "flush" /\ op.again
  /\ BothSinks
  /\ accepted # <<>>
  /\ fs[log_file.path].data = accepted
  /\ ~ret.ok

\* C11 witness of the success case: the second flush succeeded too.
C11_WitnessSucceeds ==
  /\ op.name = "flush" /\ op.again
  /\ BothSinks
  /\ accepted # <<>>
  /\ fs[log_file.path].data = accepted
  /\ ret.ok

(* Failures on the log file's path. *)

FileSinkCalls == {"ensure_dir", "create", "log_file.write", "log_file.flush"}

\* The last operation ended at a failed call on the log file's path.
FileCallFailed ==
  /\ calls # <<>>
  /\ Last(calls).call \in FileSinkCalls
  /\ ~Last(calls).res.ok

\* C12 as stated: every failure on the log file's path, a failed write in
\* write and a failed flush in flush among them, is returned as
\* CannotWriteLogs carrying the cause of the failed call.
C12_AlwaysCannotWriteLogs ==
  FileCallFailed => ret = Err("CannotWriteLogs", Last(calls).res.cause)

\* C12, amended: every such failure is returned with the cause of the
\* failed call; with_log_file returns it as CannotWriteLogs, and write and
\* flush return the log file's std::io::Error itself.
C12_FileFailureKinds ==
  FileCallFailed =>
    /\ ~ret.ok
    /\ ret.cause = Last(calls).res.cause
    /\ op.name = "with_log_file" => ret.kind = "CannotWriteLogs"
    /\ op.name \in {"write", "flush"} => (ret.kind = "io" /\ ret = Last(calls).res)
    /\ op.name \in {"with_log_file", "write", "flush"}

\* C12 witness: a write whose log file write failed, after the prefixed
\* writer took the buffer.
C12_Witness ==
  /\ op.name = "write"
  /\ FileCallFailed
  /\ Len(calls) = 2
  /\ ret.cause \in FileCauses

\* C12 witness for flush: the log file's flush failed with bytes buffered.
C12_WitnessFlush ==
  /\ op.name = "flush"
  /\ FileCallFailed
  /\ log_file.buf # <<>>
  /\ ret.cause \in FileCauses

(* The file of the current log file sink. *)

\* The file the current log file sink writes to.
SinkFile == fs[log_file.path]

\* C13: after with_log_file(p) has succeeded, a second call on the same
\* writer with bytes still buffered among the cases, and writes and a
\* successful flush have followed, the file at p holds exactly the bytes
\* written since that last with_log_file call, and none written before it.
C13_StartsFromEmptyFile ==
  (op.name = "flush" /\ ret.ok /\ log_file.some) =>
    /\ SinkFile.exists
    /\ SinkFile.data = accepted

(* Writes with one sink. *)

FileOnly == log_file.some /\ prefixed_writer = NoWriter
TermOnly == ~log_file.some /\ prefixed_writer # NoWriter

\* The bytes the log file sink holds: those its handle has put in the file
\* followed by those in its buffer.
Held(lf, fsv) == SubSeq(fsv[lf.path].data, 1, lf.pos) \o lf.buf

\* C14: with the log file alone, write calls the log file's write once and
\* no other sink, returns its result as it is, and the log file sink holds
\* the bytes it took (none on a failure) once more at its end, while the
\* prefixed writer's output is untouched; with the prefixed writer alone,
\* write calls its write once with the buffer and returns its result as it
\* is, and no file, buffer or offset changes.
C14_SingleSinkWrite ==
  [][IsWrite =>
       LET buf == Last(wlog').buf
       IN  /\ FileOnly =>
                /\ calls' = <<Call("log_file.write", ret')>>
                /\ term' = term
                /\ ret'.ok => ret'.n <= Len(buf)
                /\ Held(log_file', fs') =
                     Held(log_file, fs) \o (IF ret'.ok THEN SubSeq(buf, 1, ret'.n) ELSE <<>>)
                /\ \A p \in Paths : p # log_file.path => fs'[p] = fs[p]
           /\ TermOnly =>
                /\ calls' = <<Call("prefixed_writer.write", ret')>>
                /\ term' = Append(term, <<prefixed_writer, buf>>)
                /\ fs' = fs
                /\ log_file' = log_file
                /\ accepted' = accepted]_vars

\* C14 witness: a write to the prefixed writer alone returned its count,
\* prefix included, and no file exists.
C14_Witness ==
  /\ op.name = "write"
  /\ Last(wlog).arm = "term"
  /\ ret.ok /\ ret.n > Len(Last(wlog).buf)
  /\ Len(term) = Len(wlog)
  /\ \A p \in Paths : fs[p] = Missing

\* C14 witness for the log file alone: the file took part of the buffer,
\* after a write that was buffered, and the prefixed writer got nothing.
C14_WitnessFile ==
  /\ op.name = "write"
  /\ Len(wlog) = 2
  /\ \A i \in 1..2 : wlog[i].arm = "file"
  /\ ret.ok /\ ret.n > 0 /\ ret.n < Len(Last(wlog).buf)
  /\ Len(accepted) = 2
  /\ term = <<>>

\* C14 witness of a failure returned from the one sink.
C14_WitnessFails ==
  /\ op.name = "write"
  /\ Last(wlog).arm \in {"file", "term"}
  /\ ~ret.ok
  /\ calls = <<Call(IF Last(wlog).arm = "file" THEN "log_file.write"
                    ELSE "prefixed_writer.write", ret)>>

(* Tracing records of failures. *)

\* The records that report a failure.
FailureRecords ==
  {"warn: error creating log file directory",
   "warn: error creating log file",
   "warn: error opening log file"}

\* Every record of a failure is the last record of an operation that
\* returned a failure.
LoggedIsReturned ==
  \A i \in 1..Len(diag) :
    diag[i] \in FailureRecords => (~ret.ok /\ i = Len(diag))

\* C15 as stated: every failure returned to the caller, by with_log_file,
\* write, flush or replay_logs, comes with a tracing record emitted before
\* it is returned, and every failure that is logged is returned.
C15_EveryFailureLogged ==
  /\ ~ret.ok => diag # <<>>
  /\ LoggedIsReturned

\* C15, amended: a failure of with_log_file (at ensure_dir or at create)
\* and a failure of replay_logs to open the file come with a warn record
\* of that failure, emitted before the failure is returned; a failure of
\* write or of flush comes with no record, and a failed line read of
\* replay_logs with none but the debug record of the replay's start; every
\* failure that is logged is returned.
C15_FailureRecords ==
  /\ LoggedIsReturned
  /\ ~ret.ok =>
       /\ op.name \in {"with_log_file", "write", "flush", "replay_logs"}
       /\ op.name = "with_log_file" =>
            diag = <<IF Last(calls).call = "ensure_dir"
                     THEN "warn: error creating log file directory"
                     ELSE "warn: error creating log file">>
       /\ (Replayed /\ ~calls[1].res.ok) =>
            diag = <<"debug: start replaying logs", "warn: error opening log file">>
       /\ op.name \in {"write", "flush"} => diag = <<>>
       /\ Opened => diag = <<"debug: start replaying logs">>

\* C15 witness: the read of the second line of the file the writer wrote
\* failed, after the first line was replayed, and nothing reported it.
C15_Witness ==
  /\ Opened
  /\ ~ret.ok
  /\ Len(ui) = 1
  /\ accepted # <<>>
  /\ \A i \in 1..Len(diag) : diag[i] \notin FailureRecords

\* C15 witness of a failure that is logged: the file could not be opened.
C15_WitnessLogged ==
  /\ Replayed
  /\ fs[op.path].exists
  /\ ~ret.ok
  /\ Last(diag) = "warn: error opening log file"

\* C15 witness of a failed flush with no record.
C15_WitnessFlush ==
  /\ op.name = "flush"
  /\ ~ret.ok
  /\ diag = <<>>

(* Persisted and accepted bytes. *)

IsPrefix(a, b) == Len(a) <= Len(b) /\ a = SubSeq(b, 1, Len(a))

\* C16: while the writer has a log file, the bytes in the file are a
\* prefix of the bytes the log file sink has accepted, in the order they
\* were written, and right after a successful flush they are all of them.
C16_PersistedIsPrefix ==
  log_file.some =>
    /\ IsPrefix(SinkFile.data, accepted)
    /\ (op.name = "flush" /\ ret.ok) => SinkFile.data = accepted

(* The two slots. *)

\* C17: with_log_file, whether it succeeds or fails, leaves the prefixed
\* writer and its output as they are, and leaves the log file as it is when
\* it fails; with_prefixed_writer succeeds and leaves the log file, its
\* bytes and the files as they are; write and flush, whether they succeed
\* or fail, leave the prefixed writer as it is and the log file slot
\* holding the same sink on the same path; so the sinks that are configured
\* change only in a successful with_log_file or with_prefixed_writer, and a
\* sink that is configured stays configured.
C17_SlotsIndependent ==
  [][/\ op'.name = "with_log_file" =>
          /\ prefixed_writer' = prefixed_writer
          /\ term' = term
          /\ ~ret'.ok => (log_file' = log_file /\ fs' = fs)
          /\ ret'.ok => (log_file'.some /\ log_file'.path = op'.path)
     /\ op'.name = "with_prefixed_writer" =>
          /\ ret'.ok
          /\ prefixed_writer' # NoWriter
          /\ log_file' = log_file
          /\ fs' = fs
          /\ accepted' = accepted
     /\ op'.name \in {"write", "flush"} =>
          /\ prefixed_writer' = prefixed_writer
          /\ log_file'.some = log_file.some
          /\ log_file'.path = log_file.path
          /\ nconf' = nconf
     /\ (log_file'.some # log_file.some \/ prefixed_writer' # prefixed_writer) =>
          (op'.name \in {"with_log_file", "with_prefixed_writer"} /\ ret'.ok)
     /\ log_file.some => log_file'.some
     /\ prefixed_writer # NoWriter => prefixed_writer' # NoWriter]_vars

\* C17 witness: with_log_file failed on a writer that has both sinks and
\* has written to them, and both are still there.
C17_Witness ==
  /\ op.name = "with_log_file"
  /\ ~ret.ok
  /\ BothSinks
  /\ term # <<>>
  /\ accepted # <<>>

\* C17 witness for flush: a flush that failed at the log file left both
\* sinks in place.
C17_WitnessFlush ==
  /\ op.name = "flush"
  /\ ~ret.ok
  /\ Len(calls) = 1
  /\ BothSinks

\* C17 witness for with_prefixed_writer: called on a writer whose log file
\* holds unflushed bytes.
C17_WitnessTerminal ==
  /\ op.name = "with_prefixed_writer"
  /\ log_file.some
  /\ log_file.buf # <<>>

(* The drop of the writer. *)

\* The writer was dropped while it held a log file.
DroppedWithFile == op.name = "drop" /\ op.path # "none"

C18_WitnessLost ==
  /\ DroppedWithFile
  /\ ~calls[1].res.ok
  /\ nconf = 1
  /\ Len(fs[op.path].data) < Len(accepted)

====
